---- MODULE Spec2Model ----
(***************************************************************************)
(* State-machine model of the RecDexFHE contract                           *)
(* (src/contracts/recDEX_FHE.sol): the access registry, the throttle, the  *)
(* batch lifecycle, the submission entry point, the decryption request and *)
(* the decryption callback.  One action per external function; a call that *)
(* reverts leaves the contract storage unchanged and is recorded, with its *)
(* error, in the history variable `last`.                                  *)
(***************************************************************************)
EXTENDS Integers, Sequences, FiniteSets, TLC

(* ------------------------------ bounds --------------------------------- *)
\* openBatch is explored until currentBatchId reaches this value
MaxBatch == 2
\* requestDecryption is explored until this many request ids were issued
MaxRequests == 2
\* number of times the block timestamp advances
MaxTicks == 1
\* number of transactions of one behaviour that do not revert
MaxCalls == 5
\* largest value of the unsigned integer type (uint256 scaled down)
UintMax == 1023

(* --------------------------- input domains ----------------------------- *)
\* the accounts that send transactions: the deployer and one other account.
\* Ownership and the provider flags move between them, so each account is,
\* in some state, owner, provider, both or neither.
Addr == {1, 2}
\* the account that deploys the contract (msg.sender of the constructor)
Deployer == 1
\* batch ids used as arguments: 0 (never created by openBatch) and the ids
\* openBatch creates; an id above currentBatchId is not created yet
BatchIds == 0..MaxBatch
\* request ids used as arguments of the callback: the ids the decryption
\* oracle issues; an id at or above nextRequestId is not issued yet
RequestIds == 0..(MaxRequests - 1)
\* the cooldown set by the constructor
DefaultCooldown == 60
\* values passed to setCooldown
CooldownChoices == {0, DefaultCooldown, UintMax}
\* amounts by which the block timestamp advances between calls
TickSteps == {DefaultCooldown}
\* block timestamp of the deployment
StartTime == 100
\* bytes32 payloads passed to submitEncryptedData
Handles == {7}
\* `cleartexts` payloads of the callback: ABI-encoded words (<<>> is too
\* short to decode as one uint256)
Cleartexts == {<<>>, <<42>>}

(* ------------------------------- state --------------------------------- *)
VARIABLES
    owner,                      \* address
    isProvider,                 \* mapping(address => bool)
    paused,                     \* bool
    cooldownSeconds,            \* uint256
    lastSubmissionTime,         \* mapping(address => uint256)
    lastDecryptionRequestTime,  \* mapping(address => uint256)
    currentBatchId,             \* uint256
    isBatchClosed,              \* mapping(uint256 => bool)
    decryptionContexts,         \* mapping(uint256 => DecryptionContext)
    nextRequestId,              \* counter of the decryption oracle
    now,                        \* block.timestamp
    ticks,                      \* number of timestamp advances so far
    calls,                      \* number of transactions that did not revert
    last,                       \* the last call: function, msg.sender, error
    emitted,                    \* events emitted by the last call
    completed,                  \* requestId -> number of DecryptionCompleted events
    cooldownAtSubmit            \* provider -> cooldownSeconds when its last
                                \* submission was accepted (NoSubmit: none yet)

storage == <<owner, isProvider, paused, cooldownSeconds, lastSubmissionTime,
             lastDecryptionRequestTime, currentBatchId, isBatchClosed,
             decryptionContexts>>

vars == <<owner, isProvider, paused, cooldownSeconds, lastSubmissionTime,
          lastDecryptionRequestTime, currentBatchId, isBatchClosed,
          decryptionContexts, nextRequestId, now, ticks, calls, last,
          emitted, completed, cooldownAtSubmit>>

NoSubmit == 0 - 1

\* the zero-initialised struct a mapping returns for a key never written
EmptyContext == [batchId |-> 0, stateHash |-> 0, processed |-> FALSE]

\* the record of a call kept in `last`
Call(op, caller, res) == [op |-> op, caller |-> caller, res |-> res]

(* ------------------------- external FHE library ------------------------ *)
\* address(this): the contract's own address, distinct from every caller
ThisAddress == 0

\* FHE.asEuint32(v): the handle of the trivial encryption of v; the handle
\* is a function of the plaintext alone and is never the zero handle
AsEuint32(v) == v + 1

\* FHE.toBytes32(h): the handle as a bytes32 word
ToBytes32(h) == h

\* abi.encode(cts, address(this)) as a sequence of words
AbiEncode(cts, addr) == <<addr>> \o cts

\* keccak256 of a word sequence: an injective, never-zero digest
RECURSIVE Keccak256(_)
Keccak256(words) ==
    IF words = <<>> THEN 1 ELSE (words[1] + 1) + 16 * Keccak256(Tail(words))

\* the ciphertext list both requestBatchSummaryDecryption and myCallback build
DummySummaryCts == <<ToBytes32(AsEuint32(0))>>

\* keccak256(abi.encode(cts, address(this)))
HashCiphertexts(cts) == Keccak256(AbiEncode(cts, ThisAddress))

\* the signature the decryption oracle produces over (requestId, cleartexts)
Sign(requestId, cleartexts) == <<requestId, cleartexts>>

\* `proof` payloads tried with a callback for (requestId, cleartexts): the
\* oracle's signature over exactly that pair, and its signature over the same
\* cleartexts for another request
Proofs(requestId, cleartexts) ==
    {Sign(requestId, cleartexts), Sign(requestId + 1, cleartexts)}

\* mutant: any proof is accepted
CheckSignatures_AcceptAll(requestId, cleartexts, proof) == TRUE

\* FHE.checkSignatures(requestId, cleartexts, proof)
CheckSignatures(requestId, cleartexts, proof) == proof = Sign(requestId, cleartexts)

\* abi.decode(cleartexts, (uint256)) reverts on a payload shorter than a word
Decodable(cleartexts) == Len(cleartexts) >= 1
AbiDecode(cleartexts) == cleartexts[1]

(* ------------------------------ modifiers ------------------------------ *)
\* mutant: the owner check is left out
OnlyOwner_Anyone(caller) == TRUE

OnlyOwner(caller) == caller = owner

\* mutant: the provider check is left out
OnlyProvider_Anyone(caller) == TRUE

OnlyProvider(caller) == isProvider[caller]

\* mutant: the pause check is left out
WhenNotPaused_Always == TRUE

WhenNotPaused == ~paused

(* ------------------- the error a call ends with, or "ok" --------------- *)
\* mutant: the comparison is <= instead of <
CooldownCheck_OffByOne(lastTime) ==
    IF lastTime + cooldownSeconds > UintMax THEN "Panic"
    ELSE IF now <= lastTime + cooldownSeconds THEN "CooldownActive"
    ELSE "ok"

\* mutant: the check uses the constructor's cooldown, not the current one
CooldownCheck_ConstructorValue(lastTime) ==
    IF lastTime + DefaultCooldown > UintMax THEN "Panic"
    ELSE IF now < lastTime + DefaultCooldown THEN "CooldownActive"
    ELSE "ok"

\* checked uint256 addition followed by the comparison with block.timestamp
CooldownCheck(lastTime) ==
    IF lastTime + cooldownSeconds > UintMax THEN "Panic"
    ELSE IF now < lastTime + cooldownSeconds THEN "CooldownActive"
    ELSE "ok"

transferOwnershipError(caller) == IF ~OnlyOwner(caller) THEN "NotOwner" ELSE "ok"

addProviderError(caller) == IF ~OnlyOwner(caller) THEN "NotOwner" ELSE "ok"

removeProviderError(caller) == IF ~OnlyOwner(caller) THEN "NotOwner" ELSE "ok"

\* mutant: setPaused carries the whenNotPaused modifier too
setPausedError_WhenNotPaused(caller) ==
    IF ~OnlyOwner(caller) THEN "NotOwner"
    ELSE IF ~WhenNotPaused THEN "Paused"
    ELSE "ok"

setPausedError(caller) == IF ~OnlyOwner(caller) THEN "NotOwner" ELSE "ok"

setCooldownError(caller) == IF ~OnlyOwner(caller) THEN "NotOwner" ELSE "ok"

openBatchError(caller) ==
    IF ~OnlyOwner(caller) THEN "NotOwner"
    ELSE IF ~WhenNotPaused THEN "Paused"
    ELSE "ok"

\* mutant: the batch check of line 108 is left out
closeBatchError_AnyBatch(caller, batchId) ==
    IF ~OnlyOwner(caller) THEN "NotOwner"
    ELSE IF ~WhenNotPaused THEN "Paused"
    ELSE "ok"

\* mutant: any batch opened so far may be closed
closeBatchError_UpToCurrent(caller, batchId) ==
    IF ~OnlyOwner(caller) THEN "NotOwner"
    ELSE IF ~WhenNotPaused THEN "Paused"
    ELSE IF batchId > currentBatchId THEN "InvalidBatch"
    ELSE "ok"

closeBatchError(caller, batchId) ==
    IF ~OnlyOwner(caller) THEN "NotOwner"
    ELSE IF ~WhenNotPaused THEN "Paused"
    ELSE IF batchId # currentBatchId THEN "InvalidBatch"
    ELSE "ok"

\* mutant: submissions are accepted whatever the batch
SubmitBatchInvalid_NoCheck(batchId) == FALSE

\* line 117: the only batch check of submitEncryptedData
SubmitBatchInvalid(batchId) == isBatchClosed[batchId]

submitEncryptedDataError(caller, batchId) ==
    IF ~OnlyProvider(caller) THEN "NotProvider"
    ELSE IF ~WhenNotPaused THEN "Paused"
    ELSE IF CooldownCheck(lastSubmissionTime[caller]) # "ok"
        THEN CooldownCheck(lastSubmissionTime[caller])
    ELSE IF SubmitBatchInvalid(batchId) THEN "InvalidBatch"
    ELSE "ok"

\* mutant: requests are accepted whatever the batch
RequestBatchInvalid_NoCheck(batchId) == FALSE

\* mutant: a batch that already has a context is refused a second request
RequestBatchInvalid_Deduplicated(batchId) ==
    \/ ~isBatchClosed[batchId]
    \/ \E r \in RequestIds :
          r < nextRequestId /\ decryptionContexts[r].batchId = batchId

\* line 131: the only batch check of requestBatchSummaryDecryption
RequestBatchInvalid(batchId) == ~isBatchClosed[batchId]

\* mutant: requests are throttled by the caller's last submission
requestBatchSummaryDecryptionError_SharedThrottle(caller, batchId) ==
    IF ~OnlyProvider(caller) THEN "NotProvider"
    ELSE IF ~WhenNotPaused THEN "Paused"
    ELSE IF CooldownCheck(lastSubmissionTime[caller]) # "ok"
        THEN CooldownCheck(lastSubmissionTime[caller])
    ELSE IF RequestBatchInvalid(batchId) THEN "InvalidBatch"
    ELSE "ok"

requestBatchSummaryDecryptionError(caller, batchId) ==
    IF ~OnlyProvider(caller) THEN "NotProvider"
    ELSE IF ~WhenNotPaused THEN "Paused"
    ELSE IF CooldownCheck(lastDecryptionRequestTime[caller]) # "ok"
        THEN CooldownCheck(lastDecryptionRequestTime[caller])
    ELSE IF RequestBatchInvalid(batchId) THEN "InvalidBatch"
    ELSE "ok"

\* mutant: the replay guard is left out
ReplayGuard_NoGuard(requestId) == FALSE

\* line 156: the replay guard reads only the processed flag
ReplayGuard(requestId) == decryptionContexts[requestId].processed

\* mutant: the state verification is left out
StateHashMatches_NoCheck(requestId) == TRUE

\* mutant: a context whose stateHash was never written passes the check
StateHashMatches_UnsetPasses(requestId) ==
    \/ decryptionContexts[requestId].stateHash = 0
    \/ HashCiphertexts(DummySummaryCts) = decryptionContexts[requestId].stateHash

\* mutant: the callback re-creates another summary than the request used
StateHashMatches_OtherSummary(requestId) ==
    HashCiphertexts(<<ToBytes32(AsEuint32(1))>>)
        = decryptionContexts[requestId].stateHash

\* line 169: the recomputed hash against the stored one
StateHashMatches(requestId) ==
    HashCiphertexts(DummySummaryCts) = decryptionContexts[requestId].stateHash

\* mutant: the callback carries whenNotPaused like the provider functions
myCallbackError_WhenNotPaused(requestId, cleartexts, proof) ==
    IF ~WhenNotPaused THEN "Paused"
    ELSE IF ReplayGuard(requestId) THEN "ReplayAttempt"
    ELSE IF ~StateHashMatches(requestId) THEN "StateMismatch"
    ELSE IF ~CheckSignatures(requestId, cleartexts, proof) THEN "DecryptionFailed"
    ELSE IF ~Decodable(cleartexts) THEN "DecodeError"
    ELSE "ok"

myCallbackError(requestId, cleartexts, proof) ==
    IF ReplayGuard(requestId) THEN "ReplayAttempt"
    ELSE IF ~StateHashMatches(requestId) THEN "StateMismatch"
    ELSE IF ~CheckSignatures(requestId, cleartexts, proof) THEN "DecryptionFailed"
    ELSE IF ~Decodable(cleartexts) THEN "DecodeError"
    ELSE "ok"

(* -------------------------------- Init --------------------------------- *)
\* the state the constructor leaves
Init ==
    /\ owner = Deployer
    /\ isProvider = [a \in Addr |-> a = Deployer]
    /\ paused = FALSE
    /\ cooldownSeconds = DefaultCooldown
    /\ lastSubmissionTime = [a \in Addr |-> 0]
    /\ lastDecryptionRequestTime = [a \in Addr |-> 0]
    /\ currentBatchId = 0
    /\ isBatchClosed = [b \in BatchIds |-> FALSE]
    /\ decryptionContexts = [r \in RequestIds |-> EmptyContext]
    /\ nextRequestId = 0
    /\ now = StartTime
    /\ ticks = 0
    /\ calls = 0
    /\ last = Call("constructor", Deployer, "ok")
    /\ emitted = << <<"ProviderAdded", Deployer>> >>
    /\ completed = [r \in RequestIds |-> 0]
    /\ cooldownAtSubmit = [a \in Addr |-> NoSubmit]

(* ------------------------------- actions ------------------------------- *)
\* the transaction is mined in the current block and takes effect
Mined ==
    /\ calls < MaxCalls
    /\ calls' = calls + 1
    /\ UNCHANGED <<now, ticks>>

\* every function but submitEncryptedData leaves the submission history alone
NoSubmission == UNCHANGED cooldownAtSubmit

\* a reverted call: storage and the event log are as before the call
Reverted ==
    /\ emitted' = <<>>
    /\ UNCHANGED <<storage, nextRequestId, completed, cooldownAtSubmit, now,
                 ticks, calls>>

\* mutant: a transfer to the current owner is a silent no-op
transferOwnership_SilentSelf(caller, newOwner) ==
    LET err == transferOwnershipError(caller) IN
    /\ last' = Call("transferOwnership", caller, err)
    /\ IF err = "ok"
       THEN /\ Mined
            /\ NoSubmission
            /\ owner' = newOwner
            /\ emitted' = IF newOwner = owner THEN <<>>
                          ELSE << <<"OwnershipTransferred", owner, newOwner>> >>
            /\ UNCHANGED <<isProvider, paused, cooldownSeconds, lastSubmissionTime,
                           lastDecryptionRequestTime, currentBatchId, isBatchClosed,
                           decryptionContexts, nextRequestId, completed>>
       ELSE Reverted

\* mutant: the new owner is made a provider, as the constructor does
transferOwnership_GrantsProvider(caller, newOwner) ==
    LET err == transferOwnershipError(caller) IN
    /\ last' = Call("transferOwnership", caller, err)
    /\ IF err = "ok"
       THEN /\ Mined
            /\ NoSubmission
            /\ owner' = newOwner
            /\ isProvider' = [isProvider EXCEPT ![newOwner] = TRUE]
            /\ emitted' = << <<"OwnershipTransferred", owner, newOwner>> >>
            /\ UNCHANGED <<paused, cooldownSeconds, lastSubmissionTime,
                           lastDecryptionRequestTime, currentBatchId, isBatchClosed,
                           decryptionContexts, nextRequestId, completed>>
       ELSE Reverted

transferOwnership(caller, newOwner) ==
    LET err == transferOwnershipError(caller) IN
    /\ last' = Call("transferOwnership", caller, err)
    /\ IF err = "ok"
       THEN /\ Mined
            /\ NoSubmission
            /\ owner' = newOwner
            /\ emitted' = << <<"OwnershipTransferred", owner, newOwner>> >>
            /\ UNCHANGED <<isProvider, paused, cooldownSeconds, lastSubmissionTime,
                           lastDecryptionRequestTime, currentBatchId, isBatchClosed,
                           decryptionContexts, nextRequestId, completed>>
       ELSE Reverted

\* mutant: the isProvider test of line 78 is left out
addProvider_AlwaysEmits(caller, provider) ==
    LET err == addProviderError(caller) IN
    /\ last' = Call("addProvider", caller, err)
    /\ IF err = "ok"
       THEN /\ Mined
            /\ NoSubmission
            /\ isProvider' = [isProvider EXCEPT ![provider] = TRUE]
            /\ emitted' = << <<"ProviderAdded", provider>> >>
            /\ UNCHANGED <<owner, paused, cooldownSeconds, lastSubmissionTime,
                           lastDecryptionRequestTime, currentBatchId, isBatchClosed,
                           decryptionContexts, nextRequestId, completed>>
       ELSE Reverted

addProvider(caller, provider) ==
    LET err == addProviderError(caller) IN
    /\ last' = Call("addProvider", caller, err)
    /\ IF err = "ok"
       THEN /\ Mined
            /\ NoSubmission
            /\ IF ~isProvider[provider]
               THEN /\ isProvider' = [isProvider EXCEPT ![provider] = TRUE]
                    /\ emitted' = << <<"ProviderAdded", provider>> >>
               ELSE /\ emitted' = <<>>
                    /\ UNCHANGED isProvider
            /\ UNCHANGED <<owner, paused, cooldownSeconds, lastSubmissionTime,
                           lastDecryptionRequestTime, currentBatchId, isBatchClosed,
                           decryptionContexts, nextRequestId, completed>>
       ELSE Reverted

removeProvider(caller, provider) ==
    LET err == removeProviderError(caller) IN
    /\ last' = Call("removeProvider", caller, err)
    /\ IF err = "ok"
       THEN /\ Mined
            /\ NoSubmission
            /\ IF isProvider[provider]
               THEN /\ isProvider' = [isProvider EXCEPT ![provider] = FALSE]
                    /\ emitted' = << <<"ProviderRemoved", provider>> >>
               ELSE /\ emitted' = <<>>
                    /\ UNCHANGED isProvider
            /\ UNCHANGED <<owner, paused, cooldownSeconds, lastSubmissionTime,
                           lastDecryptionRequestTime, currentBatchId, isBatchClosed,
                           decryptionContexts, nextRequestId, completed>>
       ELSE Reverted

setPaused(caller, newPaused) ==
    LET err == setPausedError(caller) IN
    /\ last' = Call("setPaused", caller, err)
    /\ IF err = "ok"
       THEN /\ Mined
            /\ NoSubmission
            /\ paused' = newPaused
            /\ emitted' = << <<"PauseToggled", newPaused>> >>
            /\ UNCHANGED <<owner, isProvider, cooldownSeconds, lastSubmissionTime,
                           lastDecryptionRequestTime, currentBatchId, isBatchClosed,
                           decryptionContexts, nextRequestId, completed>>
       ELSE Reverted

setCooldown(caller, newCooldown) ==
    LET err == setCooldownError(caller) IN
    /\ last' = Call("setCooldown", caller, err)
    /\ IF err = "ok"
       THEN /\ Mined
            /\ NoSubmission
            /\ cooldownSeconds' = newCooldown
            /\ emitted' = << <<"CooldownSet", newCooldown>> >>
            /\ UNCHANGED <<owner, isProvider, paused, lastSubmissionTime,
                           lastDecryptionRequestTime, currentBatchId, isBatchClosed,
                           decryptionContexts, nextRequestId, completed>>
       ELSE Reverted

\* mutant: the new batch is announced but the counter is not advanced
openBatch_NoIncrement(caller) ==
    LET err == openBatchError(caller) IN
    /\ err = "ok" => currentBatchId < MaxBatch
    /\ last' = Call("openBatch", caller, err)
    /\ IF err = "ok"
       THEN /\ Mined
            /\ NoSubmission
            /\ isBatchClosed' = [isBatchClosed EXCEPT ![currentBatchId + 1] = FALSE]
            /\ emitted' = << <<"BatchOpened", currentBatchId + 1>> >>
            /\ UNCHANGED <<owner, isProvider, paused, cooldownSeconds,
                           lastSubmissionTime, lastDecryptionRequestTime,
                           currentBatchId, decryptionContexts, nextRequestId,
                           completed>>
       ELSE Reverted

\* mutant: opening the next batch clears the closed flag of the one it leaves
openBatch_ReopensCurrent(caller) ==
    LET err == openBatchError(caller) IN
    /\ err = "ok" => currentBatchId < MaxBatch
    /\ last' = Call("openBatch", caller, err)
    /\ IF err = "ok"
       THEN /\ Mined
            /\ NoSubmission
            /\ currentBatchId' = currentBatchId + 1
            /\ isBatchClosed' = [isBatchClosed EXCEPT ![currentBatchId] = FALSE,
                                                      ![currentBatchId + 1] = FALSE]
            /\ emitted' = << <<"BatchOpened", currentBatchId + 1>> >>
            /\ UNCHANGED <<owner, isProvider, paused, cooldownSeconds,
                           lastSubmissionTime, lastDecryptionRequestTime,
                           decryptionContexts, nextRequestId, completed>>
       ELSE Reverted

openBatch(caller) ==
    LET err == openBatchError(caller) IN
    /\ err = "ok" => currentBatchId < MaxBatch
    /\ last' = Call("openBatch", caller, err)
    /\ IF err = "ok"
       THEN /\ Mined
            /\ NoSubmission
            /\ currentBatchId' = currentBatchId + 1
            /\ isBatchClosed' = [isBatchClosed EXCEPT ![currentBatchId + 1] = FALSE]
            /\ emitted' = << <<"BatchOpened", currentBatchId + 1>> >>
            /\ UNCHANGED <<owner, isProvider, paused, cooldownSeconds,
                           lastSubmissionTime, lastDecryptionRequestTime,
                           decryptionContexts, nextRequestId, completed>>
       ELSE Reverted

closeBatch(caller, batchId) ==
    LET err == closeBatchError(caller, batchId) IN
    /\ last' = Call("closeBatch", caller, err)
    /\ IF err = "ok"
       THEN /\ Mined
            /\ NoSubmission
            /\ isBatchClosed' = [isBatchClosed EXCEPT ![batchId] = TRUE]
            /\ emitted' = << <<"BatchClosed", batchId>> >>
            /\ UNCHANGED <<owner, isProvider, paused, cooldownSeconds,
                           lastSubmissionTime, lastDecryptionRequestTime,
                           currentBatchId, decryptionContexts, nextRequestId,
                           completed>>
       ELSE Reverted

\* mutant: one submission clock for all providers
submitEncryptedData_GlobalClock(caller, batchId, encryptedData) ==
    LET err == submitEncryptedDataError(caller, batchId) IN
    /\ last' = Call("submitEncryptedData", caller, err)
    /\ IF err = "ok"
       THEN /\ Mined
            /\ cooldownAtSubmit' =
                   [cooldownAtSubmit EXCEPT ![caller] = cooldownSeconds]
            /\ lastSubmissionTime' = [a \in Addr |-> now]
            /\ emitted' = << <<"EncryptedDataSubmitted", caller, batchId, encryptedData>> >>
            /\ UNCHANGED <<owner, isProvider, paused, cooldownSeconds,
                           lastDecryptionRequestTime, currentBatchId, isBatchClosed,
                           decryptionContexts, nextRequestId, completed>>
       ELSE Reverted

submitEncryptedData(caller, batchId, encryptedData) ==
    LET err == submitEncryptedDataError(caller, batchId) IN
    /\ last' = Call("submitEncryptedData", caller, err)
    /\ IF err = "ok"
       THEN /\ Mined
            /\ cooldownAtSubmit' =
                   [cooldownAtSubmit EXCEPT ![caller] = cooldownSeconds]
            /\ lastSubmissionTime' = [lastSubmissionTime EXCEPT ![caller] = now]
            /\ emitted' = << <<"EncryptedDataSubmitted", caller, batchId, encryptedData>> >>
            /\ UNCHANGED <<owner, isProvider, paused, cooldownSeconds,
                           lastDecryptionRequestTime, currentBatchId, isBatchClosed,
                           decryptionContexts, nextRequestId, completed>>
       ELSE Reverted

\* mutant: the timestamp of the submission channel is written instead
requestBatchSummaryDecryption_WrongChannel(caller, batchId) ==
    LET err == requestBatchSummaryDecryptionError(caller, batchId)
        cts == DummySummaryCts
        stateHash == HashCiphertexts(cts)
        requestId == nextRequestId
    IN
    /\ err = "ok" => nextRequestId < MaxRequests
    /\ last' = Call("requestBatchSummaryDecryption", caller, err)
    /\ IF err = "ok"
       THEN /\ Mined
            /\ NoSubmission
            /\ lastSubmissionTime' = [lastSubmissionTime EXCEPT ![caller] = now]
            /\ nextRequestId' = nextRequestId + 1
            /\ decryptionContexts' =
                   [decryptionContexts EXCEPT ![requestId] =
                       [batchId |-> batchId, stateHash |-> stateHash,
                        processed |-> FALSE]]
            /\ emitted' = << <<"DecryptionRequested", requestId, batchId>> >>
            /\ UNCHANGED <<owner, isProvider, paused, cooldownSeconds,
                           lastDecryptionRequestTime, currentBatchId,
                           isBatchClosed, completed>>
       ELSE Reverted

\* FHE.requestDecryption returns the oracle's counter and increments it
requestBatchSummaryDecryption(caller, batchId) ==
    LET err == requestBatchSummaryDecryptionError(caller, batchId)
        cts == DummySummaryCts
        stateHash == HashCiphertexts(cts)
        requestId == nextRequestId
    IN
    /\ err = "ok" => nextRequestId < MaxRequests
    /\ last' = Call("requestBatchSummaryDecryption", caller, err)
    /\ IF err = "ok"
       THEN /\ Mined
            /\ NoSubmission
            /\ lastDecryptionRequestTime' =
                   [lastDecryptionRequestTime EXCEPT ![caller] = now]
            /\ nextRequestId' = nextRequestId + 1
            /\ decryptionContexts' =
                   [decryptionContexts EXCEPT ![requestId] =
                       [batchId |-> batchId, stateHash |-> stateHash,
                        processed |-> FALSE]]
            /\ emitted' = << <<"DecryptionRequested", requestId, batchId>> >>
            /\ UNCHANGED <<owner, isProvider, paused, cooldownSeconds,
                           lastSubmissionTime, currentBatchId, isBatchClosed,
                           completed>>
       ELSE Reverted

\* mutant: finalization rewrites the whole context instead of one field
myCallback_OverwritesContext(caller, requestId, cleartexts, proof) ==
    LET err == myCallbackError(requestId, cleartexts, proof) IN
    /\ last' = Call("myCallback", caller, err)
    /\ IF err = "ok"
       THEN /\ Mined
            /\ NoSubmission
            /\ decryptionContexts' =
                   [decryptionContexts EXCEPT ![requestId] =
                       [batchId |-> 0, stateHash |-> 0, processed |-> TRUE]]
            /\ emitted' = << <<"DecryptionCompleted", requestId,
                               decryptionContexts[requestId].batchId,
                               <<AbiDecode(cleartexts)>> >> >>
            /\ completed' = [completed EXCEPT ![requestId] = @ + 1]
            /\ UNCHANGED <<owner, isProvider, paused, cooldownSeconds,
                           lastSubmissionTime, lastDecryptionRequestTime,
                           currentBatchId, isBatchClosed, nextRequestId>>
       ELSE Reverted

myCallback(caller, requestId, cleartexts, proof) ==
    LET err == myCallbackError(requestId, cleartexts, proof) IN
    /\ last' = Call("myCallback", caller, err)
    /\ IF err = "ok"
       THEN /\ Mined
            /\ NoSubmission
            /\ decryptionContexts' =
                   [decryptionContexts EXCEPT ![requestId].processed = TRUE]
            /\ emitted' = << <<"DecryptionCompleted", requestId,
                               decryptionContexts[requestId].batchId,
                               <<AbiDecode(cleartexts)>> >> >>
            /\ completed' = [completed EXCEPT ![requestId] = @ + 1]
            /\ UNCHANGED <<owner, isProvider, paused, cooldownSeconds,
                           lastSubmissionTime, lastDecryptionRequestTime,
                           currentBatchId, isBatchClosed, nextRequestId>>
       ELSE Reverted

\* time passes between transactions: block.timestamp grows
Tick(step) ==
    /\ ticks < MaxTicks
    /\ now + step <= UintMax
    /\ now' = now + step
    /\ ticks' = ticks + 1
    /\ last' = Call("tick", 0, "ok")
    /\ emitted' = <<>>
    /\ UNCHANGED <<storage, nextRequestId, completed, cooldownAtSubmit, calls>>

Next ==
    \/ \E c \in Addr, n \in Addr : transferOwnership(c, n)
    \/ \E c \in Addr, p \in Addr : addProvider(c, p)
    \/ \E c \in Addr, p \in Addr : removeProvider(c, p)
    \/ \E c \in Addr, b \in BOOLEAN : setPaused(c, b)
    \/ \E c \in Addr, s \in CooldownChoices : setCooldown(c, s)
    \/ \E c \in Addr : openBatch(c)
    \/ \E c \in Addr, b \in BatchIds : closeBatch(c, b)
    \/ \E c \in Addr, b \in BatchIds, h \in Handles : submitEncryptedData(c, b, h)
    \/ \E c \in Addr, b \in BatchIds : requestBatchSummaryDecryption(c, b)
    \/ \E c \in Addr, r \in RequestIds, t \in Cleartexts : \E p \in Proofs(r, t) :
           myCallback(c, r, t, p)
    \/ \E s \in TickSteps : Tick(s)

Spec == Init /\ [][Next]_vars

(* ======================= properties of the contract ==================== *)
\* every variable a call can change, the event log included
contract == <<storage, nextRequestId, completed, cooldownAtSubmit>>

\* the call just made reverted without a trace
CleanRevert == emitted' = <<>> /\ UNCHANGED contract

\* no context was ever stored under requestId: the oracle has not issued it
NeverRequested(requestId) == requestId >= nextRequestId

\* the hash myCallback recomputes
CurrentHash == HashCiphertexts(DummySummaryCts)

(* C1: replay safety.  Once a myCallback call for a requestId has succeeded, *)
(* every later myCallback call with that requestId, whatever its caller,     *)
(* cleartexts and proof and whatever ran in between, reverts with            *)
(* ReplayAttempt and changes nothing; DecryptionCompleted is emitted at most *)
(* once per requestId.                                                       *)
C1_ReplaySafety ==
    /\ [](\A r \in RequestIds :
             /\ completed[r] <= 1
             /\ completed[r] >= 1 =>
                   \A t \in Cleartexts : \A p \in Proofs(r, t) :
                       myCallbackError(r, t, p) = "ReplayAttempt")
    /\ [][/\ \A r \in RequestIds :
                completed[r] >= 1 =>
                   /\ completed'[r] = completed[r]
                   /\ decryptionContexts'[r] = decryptionContexts[r]
          /\ (last'.op = "myCallback" /\ last'.res = "ReplayAttempt") =>
                CleanRevert]_vars

\* a second callback for a finalized request, after other calls ran, reverted
C1_Witness ==
    /\ last.op = "myCallback"
    /\ last.res = "ReplayAttempt"
    /\ \E r \in RequestIds : completed[r] = 1 /\ decryptionContexts[r].processed
    /\ paused

(* C2, as claimed: myCallback with a requestId for which no context was ever *)
(* created reverts with ReplayAttempt and leaves the state unchanged.        *)
C2_MissingContextIsReplayAttempt ==
    [][\A c \in Addr, r \in RequestIds, t \in Cleartexts :
          \A p \in Proofs(r, t) :
             (NeverRequested(r) /\ myCallback(c, r, t, p)) =>
                (last'.res = "ReplayAttempt" /\ UNCHANGED contract)]_vars

(* C2, amended: myCallback with a requestId for which no context was ever    *)
(* created reverts with StateMismatch (the replay guard reads only the       *)
(* processed flag, which is false in the empty context, and the stored hash  *)
(* of the empty context is zero) and leaves the state unchanged.             *)
C2_MissingContextIsStateMismatch ==
    /\ [](\A r \in RequestIds :
             NeverRequested(r) =>
                /\ decryptionContexts[r] = EmptyContext
                /\ \A t \in Cleartexts : \A p \in Proofs(r, t) :
                       myCallbackError(r, t, p) = "StateMismatch")
    /\ [][(last'.op = "myCallback" /\ last'.res = "StateMismatch") =>
             CleanRevert]_vars

\* a callback arrived before any request was made, and reverted with StateMismatch
C2_Witness ==
    /\ last.op = "myCallback"
    /\ last.res = "StateMismatch"
    /\ nextRequestId = 0

(* C3: no partial finalization.  A context becomes processed, and            *)
(* DecryptionCompleted is emitted, only by a myCallback call whose replay    *)
(* guard, state verification and proof verification all pass; a myCallback   *)
(* call that fails one of them reverts with ReplayAttempt, StateMismatch or  *)
(* DecryptionFailed and changes nothing, so a request whose callback failed  *)
(* on a bad proof is still finalized by a callback carrying the oracle's     *)
(* signature.                                                                *)
C3_NoPartialFinalization ==
    /\ [](\A r \in RequestIds, t \in Cleartexts :
             /\ \A p \in Proofs(r, t) :
                   /\ decryptionContexts[r].processed
                         => myCallbackError(r, t, p) = "ReplayAttempt"
                   /\ decryptionContexts[r].stateHash # CurrentHash
                         => myCallbackError(r, t, p)
                               \in {"ReplayAttempt", "StateMismatch"}
                   /\ p # Sign(r, t)
                         => myCallbackError(r, t, p)
                               \in {"ReplayAttempt", "StateMismatch",
                                    "DecryptionFailed"}
             /\ (~NeverRequested(r) /\ ~decryptionContexts[r].processed
                    /\ Decodable(t))
                   => myCallbackError(r, t, Sign(r, t)) = "ok")
    /\ [][/\ \A r \in RequestIds :
                \/ decryptionContexts'[r].processed
                      # decryptionContexts[r].processed
                \/ completed'[r] # completed[r]
                => /\ last'.op = "myCallback"
                   /\ last'.res = "ok"
                   /\ ~decryptionContexts[r].processed
                   /\ decryptionContexts[r].stateHash = CurrentHash
                   /\ decryptionContexts'[r] =
                          [decryptionContexts[r] EXCEPT !.processed = TRUE]
                   /\ completed'[r] = completed[r] + 1
                   /\ \E t \in Cleartexts :
                          emitted' = << <<"DecryptionCompleted", r,
                                          decryptionContexts[r].batchId, t>> >>
          /\ (last'.op = "myCallback" /\ last'.res # "ok") => CleanRevert]_vars

\* a callback with a bad proof reverted, and the request is still open
C3_Witness ==
    /\ last.op = "myCallback"
    /\ last.res = "DecryptionFailed"
    /\ \E r \in RequestIds : ~NeverRequested(r) /\ ~decryptionContexts[r].processed

(* C4, as claimed: submitEncryptedData succeeds only when batchId is the     *)
(* current batch and that batch was opened and is not closed; batch 0 before *)
(* any openBatch, an id above currentBatchId and a superseded earlier batch  *)
(* are rejected.                                                             *)
C4_SubmitOnlyIntoCurrentOpenBatch ==
    [][(last'.op = "submitEncryptedData" /\ last'.res = "ok") =>
          \A c \in Addr, b \in BatchIds, h \in Handles :
             submitEncryptedData(c, b, h) =>
                /\ b = currentBatchId
                /\ currentBatchId >= 1
                /\ ~isBatchClosed[b]]_vars

\* the submission throttle lets the caller through
SubmissionUnthrottled(caller) ==
    now >= lastSubmissionTime[caller] + cooldownSeconds

\* the decryption-request throttle lets the caller through
RequestUnthrottled(caller) ==
    now >= lastDecryptionRequestTime[caller] + cooldownSeconds

(* C5: once closeBatch(b) has succeeded, isBatchClosed[b] stays set and no    *)
(* later submitEncryptedData into b succeeds; from a provider that is neither *)
(* paused nor throttled it reverts with InvalidBatch.  A submission by an     *)
(* authorized, un-throttled provider into the current open batch while not    *)
(* paused succeeds and emits exactly one EncryptedDataSubmitted carrying      *)
(* (provider, batchId, encryptedData).                                        *)
C5_ClosedBatchRejectsSubmissions ==
    /\ [](\A c \in Addr, b \in BatchIds :
             /\ isBatchClosed[b] =>
                   /\ submitEncryptedDataError(c, b) # "ok"
                   /\ (isProvider[c] /\ ~paused /\ SubmissionUnthrottled(c))
                         => submitEncryptedDataError(c, b) = "InvalidBatch"
             /\ (isProvider[c] /\ ~paused /\ SubmissionUnthrottled(c)
                    /\ b = currentBatchId /\ ~isBatchClosed[b])
                   => submitEncryptedDataError(c, b) = "ok")
    /\ [][/\ \A b \in BatchIds :
                /\ isBatchClosed[b] => isBatchClosed'[b]
                /\ (last'.op = "closeBatch" /\ last'.res = "ok"
                       /\ emitted' = << <<"BatchClosed", b>> >>)
                      => isBatchClosed'[b]
          /\ (last'.op = "submitEncryptedData" /\ last'.res = "ok") =>
                \A c \in Addr, b \in BatchIds, h \in Handles :
                   submitEncryptedData(c, b, h) =>
                      /\ ~isBatchClosed[b]
                      /\ emitted' = << <<"EncryptedDataSubmitted", c, b, h>> >>
                      /\ lastSubmissionTime'[c] = now]_vars

\* a provider's submission into a batch that was opened and then closed was
\* rejected with InvalidBatch
C5_Witness ==
    /\ last.op = "submitEncryptedData"
    /\ last.res = "InvalidBatch"
    /\ currentBatchId >= 1
    /\ isBatchClosed[currentBatchId]

(* C6: requestBatchSummaryDecryption by an authorized, un-throttled provider  *)
(* while not paused reverts with InvalidBatch, creating no context, when the  *)
(* batch is not closed; when it is closed the call succeeds, takes a          *)
(* requestId that was never issued before, stores the context                 *)
(* {batchId, stateHash, processed = false} under it and emits one             *)
(* DecryptionRequested(requestId, batchId).                                   *)
C6_RequestNeedsClosedBatch ==
    /\ [](\A c \in Addr, b \in BatchIds :
             (isProvider[c] /\ ~paused /\ RequestUnthrottled(c)) =>
                requestBatchSummaryDecryptionError(c, b) =
                   IF isBatchClosed[b] THEN "ok" ELSE "InvalidBatch")
    /\ [][last'.op = "requestBatchSummaryDecryption" =>
             /\ last'.res # "ok" => CleanRevert
             /\ last'.res = "ok" =>
                   \A c \in Addr, b \in BatchIds :
                      requestBatchSummaryDecryption(c, b) =>
                         /\ isBatchClosed[b]
                         /\ completed[nextRequestId] = 0
                         /\ decryptionContexts[nextRequestId] = EmptyContext
                         /\ nextRequestId' = nextRequestId + 1
                         /\ decryptionContexts' =
                               [decryptionContexts EXCEPT ![nextRequestId] =
                                   [batchId |-> b, stateHash |-> CurrentHash,
                                    processed |-> FALSE]]
                         /\ emitted' =
                               << <<"DecryptionRequested", nextRequestId, b>> >>]_vars

\* a request for an open batch was rejected, after an earlier request for a
\* closed batch had been accepted
C6_Witness ==
    /\ last.op = "requestBatchSummaryDecryption"
    /\ last.res = "InvalidBatch"
    /\ nextRequestId >= 1

OwnerOnly == {"transferOwnership", "addProvider", "removeProvider", "setPaused",
              "setCooldown", "openBatch", "closeBatch"}

(* C7: a call of transferOwnership, addProvider, removeProvider, setPaused,   *)
(* setCooldown, openBatch or closeBatch by anyone but the current owner,      *)
(* paused or not, reverts with NotOwner and changes nothing.                  *)
C7_NonOwnerIsRejected ==
    [][(last'.op \in OwnerOnly /\ last'.caller # owner) =>
          /\ last'.res = "NotOwner"
          /\ CleanRevert]_vars

\* a former owner's closeBatch was rejected while the contract was paused
C7_Witness ==
    /\ last.op = "closeBatch"
    /\ last.res = "NotOwner"
    /\ last.caller = Deployer
    /\ paused

(* C8: with the cooldown c that was in force when provider p's last           *)
(* submission was accepted, at time t, still in force: a submission by p at a *)
(* time before t + c never succeeds and, the contract not being paused,       *)
(* reverts with CooldownActive; at a time from t + c on, a submission by p    *)
(* into a batch that is not closed succeeds when the contract is not paused.  *)
C8_SubmissionCooldown ==
    /\ [](\A p \in Addr, b \in BatchIds :
             (isProvider[p] /\ cooldownAtSubmit[p] # NoSubmit
                 /\ cooldownAtSubmit[p] = cooldownSeconds) =>
                /\ now < lastSubmissionTime[p] + cooldownSeconds =>
                      /\ submitEncryptedDataError(p, b) # "ok"
                      /\ ~paused =>
                            submitEncryptedDataError(p, b) = "CooldownActive"
                /\ (now >= lastSubmissionTime[p] + cooldownSeconds
                       /\ ~paused /\ ~isBatchClosed[b])
                      => submitEncryptedDataError(p, b) = "ok")
    /\ [][/\ (last'.op = "submitEncryptedData" /\ last'.res = "CooldownActive")
                => CleanRevert
          /\ (last'.op = "submitEncryptedData" /\ last'.res = "ok")
                => /\ lastSubmissionTime'[last'.caller] = now
                   /\ cooldownAtSubmit'[last'.caller] = cooldownSeconds]_vars

\* a provider's submission was accepted and, the default cooldown still in
\* force, its next submission in the same block was rejected
C8_Witness ==
    /\ last.op = "submitEncryptedData"
    /\ last.res = "CooldownActive"
    /\ cooldownSeconds = DefaultCooldown
    /\ cooldownAtSubmit[last.caller] = cooldownSeconds
    /\ lastSubmissionTime[last.caller] = now

(* C9, as claimed: while paused, every submitEncryptedData and every         *)
(* requestBatchSummaryDecryption call, from a provider or not, reverts with  *)
(* Paused, and so do the owner's openBatch and closeBatch; none changes      *)
(* state.                                                                    *)
C9_PausedRejectsEveryCaller ==
    [][paused =>
          /\ last'.op \in {"submitEncryptedData", "requestBatchSummaryDecryption"}
                => (last'.res = "Paused" /\ CleanRevert)
          /\ (last'.op \in {"openBatch", "closeBatch"} /\ last'.caller = owner)
                => (last'.res = "Paused" /\ CleanRevert)]_vars

(* C9, amended: while paused, every submitEncryptedData and every            *)
(* requestBatchSummaryDecryption call by a provider reverts with Paused and  *)
(* by a non-provider with NotProvider (onlyProvider runs before              *)
(* whenNotPaused), and the owner's openBatch and closeBatch revert with      *)
(* Paused; none of these calls changes state.                                *)
C9_PausedRejectsProviders ==
    [][paused =>
          /\ last'.op \in {"submitEncryptedData", "requestBatchSummaryDecryption"}
                => /\ last'.res = IF isProvider[last'.caller]
                                  THEN "Paused" ELSE "NotProvider"
                   /\ CleanRevert
          /\ (last'.op \in {"openBatch", "closeBatch"} /\ last'.caller = owner)
                => (last'.res = "Paused" /\ CleanRevert)]_vars

\* while paused, a provider's request was rejected with Paused
C9_Witness ==
    /\ paused
    /\ last.op = "requestBatchSummaryDecryption"
    /\ last.res = "Paused"
    /\ isProvider[last.caller]

(* C10: the pause flag does not block administration.  While paused, the     *)
(* owner's transferOwnership, addProvider, removeProvider, setCooldown and   *)
(* setPaused succeed with their normal effect; in particular the owner can   *)
(* always unpause.                                                           *)
C10_PauseDoesNotBlockAdmin ==
    /\ [](paused =>
             /\ transferOwnershipError(owner) = "ok"
             /\ addProviderError(owner) = "ok"
             /\ removeProviderError(owner) = "ok"
             /\ setCooldownError(owner) = "ok"
             /\ setPausedError(owner) = "ok")
    /\ [][(paused /\ last'.caller = owner) =>
             /\ last'.op = "transferOwnership" =>
                   \A n \in Addr :
                      transferOwnership(owner, n) =>
                         /\ last'.res = "ok"
                         /\ owner' = n
                         /\ emitted' = << <<"OwnershipTransferred", owner, n>> >>
             /\ last'.op = "addProvider" =>
                   \A p \in Addr :
                      addProvider(owner, p) =>
                         /\ last'.res = "ok"
                         /\ isProvider' = [isProvider EXCEPT ![p] = TRUE]
                         /\ emitted' = IF isProvider[p] THEN <<>>
                                       ELSE << <<"ProviderAdded", p>> >>
             /\ last'.op = "removeProvider" =>
                   \A p \in Addr :
                      removeProvider(owner, p) =>
                         /\ last'.res = "ok"
                         /\ isProvider' = [isProvider EXCEPT ![p] = FALSE]
                         /\ emitted' = IF isProvider[p]
                                       THEN << <<"ProviderRemoved", p>> >>
                                       ELSE <<>>
             /\ last'.op = "setCooldown" =>
                   \A s \in CooldownChoices :
                      setCooldown(owner, s) =>
                         /\ last'.res = "ok"
                         /\ cooldownSeconds' = s
                         /\ emitted' = << <<"CooldownSet", s>> >>
             /\ last'.op = "setPaused" =>
                   \A v \in BOOLEAN :
                      setPaused(owner, v) =>
                         /\ last'.res = "ok"
                         /\ paused' = v
                         /\ emitted' = << <<"PauseToggled", v>> >>]_vars

\* while the contract was paused, the owner added a provider
C10_Witness ==
    /\ paused
    /\ last.op = "addProvider"
    /\ last.res = "ok"
    /\ last.caller = owner
    /\ \E p \in Addr : emitted = << <<"ProviderAdded", p>> >> /\ isProvider[p]

(* C11: the admin toggles are idempotent.  addProvider(p) by the owner when  *)
(* p is already a provider, and removeProvider(p) when p is not a provider,  *)
(* succeed, change no state and emit no event; otherwise they set the flag   *)
(* and emit one ProviderAdded / ProviderRemoved.  So of two consecutive      *)
(* addProvider(p) calls the second is silent: the pair emits exactly one     *)
(* ProviderAdded when p was not a provider before, and isProvider[p] holds   *)
(* after it.                                                                 *)
C11_AdminTogglesIdempotent ==
    [][/\ (last'.op = "addProvider" /\ last'.res = "ok") =>
             \A p \in Addr :
                addProvider(last'.caller, p) =>
                   /\ isProvider'[p]
                   /\ isProvider[p] => (emitted' = <<>> /\ UNCHANGED contract)
                   /\ ~isProvider[p] =>
                         emitted' = << <<"ProviderAdded", p>> >>
                   /\ (last.op = "addProvider" /\ last.res = "ok"
                          /\ emitted = << <<"ProviderAdded", p>> >>)
                         => (emitted' = <<>> /\ UNCHANGED contract)
       /\ (last'.op = "removeProvider" /\ last'.res = "ok") =>
             \A p \in Addr :
                removeProvider(last'.caller, p) =>
                   /\ ~isProvider'[p]
                   /\ ~isProvider[p] => (emitted' = <<>> /\ UNCHANGED contract)
                   /\ isProvider[p] =>
                         emitted' = << <<"ProviderRemoved", p>> >>]_vars

\* the owner's first call made the other account a provider, its second
\* call was an addProvider that found the flag set and emitted nothing
C11_Witness ==
    /\ last.op = "addProvider"
    /\ last.res = "ok"
    /\ emitted = <<>>
    /\ calls = 2
    /\ \A a \in Addr : isProvider[a]

(* C12: a closed batch never reopens.  For every batch id b, once            *)
(* isBatchClosed[b] is true it is true in every later state, whatever        *)
(* openBatch, closeBatch, submitEncryptedData, requestBatchSummaryDecryption,*)
(* myCallback and admin calls follow: closeBatch closes only the current     *)
(* batch, so the id openBatch resets (currentBatchId + 1) is never closed.   *)
C12_ClosedBatchNeverReopens ==
    /\ [](\A b \in BatchIds : isBatchClosed[b] => b <= currentBatchId)
    /\ [][\A b \in BatchIds : isBatchClosed[b] => isBatchClosed'[b]]_vars

\* a batch created by openBatch was closed, and the next openBatch left it closed
C12_Witness ==
    /\ last.op = "openBatch"
    /\ last.res = "ok"
    /\ currentBatchId >= 2
    /\ isBatchClosed[currentBatchId - 1]

(* C13: currentBatchId is 0 after construction, grows by exactly 1 on each   *)
(* successful openBatch, which leaves the new batch's closed flag false and  *)
(* emits BatchOpened with the new id, and is changed by no other function    *)
(* and by no call that reverts; so it never decreases.                       *)
C13_BatchCounter ==
    /\ currentBatchId = 0
    /\ [][/\ currentBatchId' >= currentBatchId
          /\ currentBatchId' # currentBatchId =>
                (last'.op = "openBatch" /\ last'.res = "ok")
          /\ (last'.op = "openBatch" /\ last'.res = "ok") =>
                /\ currentBatchId' = currentBatchId + 1
                /\ ~isBatchClosed'[currentBatchId']
                /\ emitted' = << <<"BatchOpened", currentBatchId'>> >>
          /\ last'.res # "ok" => currentBatchId' = currentBatchId]_vars

\* the owner opened a second batch: the counter went from 1 to 2
C13_Witness ==
    /\ last.op = "openBatch"
    /\ last.res = "ok"
    /\ currentBatchId = 2
    /\ emitted = << <<"BatchOpened", 2>> >>
    /\ ~isBatchClosed[2]

ScenarioFresh(a) ==
    /\ ~paused
    /\ isProvider[a]
    /\ cooldownSeconds = DefaultCooldown
    /\ currentBatchId = 0
    /\ \A b \in BatchIds : ~isBatchClosed[b]
    /\ lastSubmissionTime[a] = 0
    /\ lastDecryptionRequestTime[a] = 0
    /\ nextRequestId = 0
    /\ \A r \in RequestIds : decryptionContexts[r] = EmptyContext /\ completed[r] = 0

\* after the owner's openBatch: batch 1 is current and open
ScenarioOpened(a) ==
    /\ ~paused
    /\ isProvider[a]
    /\ cooldownSeconds = DefaultCooldown
    /\ currentBatchId = 1
    /\ \A b \in BatchIds : ~isBatchClosed[b]
    /\ lastSubmissionTime[a] = 0
    /\ lastDecryptionRequestTime[a] = 0
    /\ nextRequestId = 0
    /\ \A r \in RequestIds : decryptionContexts[r] = EmptyContext /\ completed[r] = 0

\* after a's submission into batch 1
ScenarioSubmitted(a) ==
    /\ ~paused
    /\ isProvider[a]
    /\ cooldownSeconds = DefaultCooldown
    /\ currentBatchId = 1
    /\ \A b \in BatchIds : ~isBatchClosed[b]
    /\ lastSubmissionTime[a] = now
    /\ lastDecryptionRequestTime[a] = 0
    /\ nextRequestId = 0
    /\ \A r \in RequestIds : decryptionContexts[r] = EmptyContext /\ completed[r] = 0

\* after the owner's closeBatch(1)
ScenarioClosed(a) ==
    /\ ~paused
    /\ isProvider[a]
    /\ cooldownSeconds = DefaultCooldown
    /\ currentBatchId = 1
    /\ \A b \in BatchIds : isBatchClosed[b] <=> b = 1
    /\ lastSubmissionTime[a] = now
    /\ lastDecryptionRequestTime[a] = 0
    /\ nextRequestId = 0
    /\ \A r \in RequestIds : decryptionContexts[r] = EmptyContext /\ completed[r] = 0

\* after a's requestBatchSummaryDecryption(1): the oracle's first id, 0,
\* holds the context of batch 1
ScenarioRequested(a) ==
    /\ ~paused
    /\ isProvider[a]
    /\ cooldownSeconds = DefaultCooldown
    /\ currentBatchId = 1
    /\ \A b \in BatchIds : isBatchClosed[b] <=> b = 1
    /\ lastSubmissionTime[a] = now
    /\ lastDecryptionRequestTime[a] = now
    /\ nextRequestId = 1
    /\ decryptionContexts[0] =
           [batchId |-> 1, stateHash |-> CurrentHash, processed |-> FALSE]
    /\ completed[0] = 0

\* after the callback for request 0
ScenarioFinalized(a) ==
    /\ ~paused
    /\ isProvider[a]
    /\ cooldownSeconds = DefaultCooldown
    /\ currentBatchId = 1
    /\ \A b \in BatchIds : isBatchClosed[b] <=> b = 1
    /\ lastSubmissionTime[a] = now
    /\ lastDecryptionRequestTime[a] = now
    /\ nextRequestId = 1
    /\ decryptionContexts[0] =
           [batchId |-> 1, stateHash |-> CurrentHash, processed |-> TRUE]
    /\ completed[0] = 1

(* C15: end-to-end ordering.  From the deployed contract, each call of the   *)
(* run below succeeds in the state the previous one left and has the stated  *)
(* effect: the owner's openBatch creates batch 1; provider a's               *)
(* submitEncryptedData(1, h) emits exactly one EncryptedDataSubmitted; the   *)
(* owner's closeBatch(1) closes it; a's requestBatchSummaryDecryption(1)     *)
(* stores the context under a fresh requestId r (announced by                *)
(* DecryptionRequested(r, 1)); myCallback(r, cleartexts, oracle signature)   *)
(* emits DecryptionCompleted(r, 1, decoded value) and marks the context      *)
(* processed; every further myCallback(r, ...) reverts with ReplayAttempt.   *)
C15_EndToEnd ==
    /\ [](\A a \in Addr :
             /\ ScenarioFresh(a) => openBatchError(owner) = "ok"
             /\ ScenarioOpened(a) => submitEncryptedDataError(a, 1) = "ok"
             /\ ScenarioSubmitted(a) => closeBatchError(owner, 1) = "ok"
             /\ ScenarioClosed(a) =>
                   requestBatchSummaryDecryptionError(a, 1) = "ok"
             /\ ScenarioRequested(a) =>
                   \A t \in Cleartexts :
                      Decodable(t) => myCallbackError(0, t, Sign(0, t)) = "ok"
             /\ ScenarioFinalized(a) =>
                   \A t \in Cleartexts : \A p \in Proofs(0, t) :
                      myCallbackError(0, t, p) = "ReplayAttempt")
    /\ [][\A a \in Addr :
             /\ (ScenarioFresh(a) /\ last' = Call("openBatch", owner, "ok")) =>
                   /\ ScenarioOpened(a)'
                   /\ emitted' = << <<"BatchOpened", 1>> >>
             /\ (ScenarioOpened(a)
                    /\ last' = Call("submitEncryptedData", a, "ok")) =>
                   \A h \in Handles :
                      submitEncryptedData(a, 1, h) =>
                         /\ ScenarioSubmitted(a)'
                         /\ emitted' =
                               << <<"EncryptedDataSubmitted", a, 1, h>> >>
             /\ (ScenarioSubmitted(a) /\ last' = Call("closeBatch", owner, "ok")) =>
                   /\ ScenarioClosed(a)'
                   /\ emitted' = << <<"BatchClosed", 1>> >>
             /\ (ScenarioClosed(a)
                    /\ last' = Call("requestBatchSummaryDecryption", a, "ok")
                    /\ requestBatchSummaryDecryption(a, 1)) =>
                   /\ ScenarioRequested(a)'
                   /\ emitted' = << <<"DecryptionRequested", 0, 1>> >>
             /\ (ScenarioRequested(a)
                    /\ last'.op = "myCallback" /\ last'.res = "ok") =>
                   /\ ScenarioFinalized(a)'
                   /\ \E t \in Cleartexts :
                         /\ Decodable(t)
                         /\ emitted' = << <<"DecryptionCompleted", 0, 1,
                                            <<AbiDecode(t)>> >> >>
             /\ (ScenarioFinalized(a) /\ last'.op = "myCallback") =>
                   \A c \in Addr, t \in Cleartexts : \A p \in Proofs(0, t) :
                      myCallback(c, 0, t, p) =>
                         /\ last'.res = "ReplayAttempt"
                         /\ CleanRevert
                         /\ ScenarioFinalized(a)']_vars

\* the deployer, owner and provider, ran the whole sequence in five accepted
\* calls, and the second callback for request 0 was rejected
C15_Witness ==
    /\ ScenarioFinalized(Deployer)
    /\ owner = Deployer
    /\ last = Call("myCallback", last.caller, "ReplayAttempt")
    /\ calls = 5
    /\ ticks = 0

\* the caller of the call just made held neither role when it called
CallerWithoutRole ==
    /\ last'.caller \in Addr
    /\ last'.caller # owner
    /\ ~isProvider[last'.caller]

(* C16, as claimed: every state-changing call is gated by owner or provider  *)
(* role; a caller holding neither role changes no state through any          *)
(* function, myCallback included.                                            *)
C16_NoRoleNoStateChange ==
    [][CallerWithoutRole => UNCHANGED contract]_vars

(* C16, amended: every function but myCallback is gated by role: a call by   *)
(* an account that is neither the owner nor a provider reverts with NotOwner *)
(* or NotProvider and changes nothing.  myCallback carries no role check: it *)
(* is gated by the replay guard, the state hash and the proof, so such an    *)
(* account changes state only through a successful myCallback, which sets    *)
(* the processed flag of one requested, unprocessed context and nothing      *)
(* else.                                                                     *)
C16_OnlyCallbackIsUngated ==
    [][CallerWithoutRole =>
          /\ last'.op # "myCallback" =>
                /\ last'.res \in {"NotOwner", "NotProvider"}
                /\ CleanRevert
          /\ (last'.op = "myCallback" /\ last'.res # "ok") => CleanRevert
          /\ (last'.op = "myCallback" /\ last'.res = "ok") =>
                /\ UNCHANGED <<owner, isProvider, paused, cooldownSeconds,
                               lastSubmissionTime, lastDecryptionRequestTime,
                               currentBatchId, isBatchClosed, nextRequestId>>
                /\ \E r \in RequestIds :
                      /\ ~NeverRequested(r)
                      /\ ~decryptionContexts[r].processed
                      /\ decryptionContexts' =
                            [decryptionContexts EXCEPT ![r].processed = TRUE]]_vars

\* an account that is neither owner nor provider delivered a callback that
\* finalized a request
C16_Witness ==
    /\ last.op = "myCallback"
    /\ last.res = "ok"
    /\ last.caller # owner
    /\ ~isProvider[last.caller]
    /\ \E r \in RequestIds : decryptionContexts[r].processed

(* C17: the throttle timestamps change only on accepted actions.  A          *)
(* submitEncryptedData or requestBatchSummaryDecryption call that reverts    *)
(* (NotProvider, Paused, CooldownActive, InvalidBatch or an arithmetic       *)
(* panic) leaves lastSubmissionTime and lastDecryptionRequestTime of every   *)
(* account unchanged; a successful one sets the caller's timestamp of its    *)
(* own channel to block.timestamp and changes no other timestamp; no other   *)
(* function changes any timestamp.                                           *)
C17_TimestampsOnlyOnAccept ==
    [][/\ (last'.op = "submitEncryptedData" /\ last'.res = "ok") =>
             /\ lastSubmissionTime' =
                   [lastSubmissionTime EXCEPT ![last'.caller] = now]
             /\ UNCHANGED lastDecryptionRequestTime
       /\ (last'.op = "requestBatchSummaryDecryption" /\ last'.res = "ok") =>
             /\ lastDecryptionRequestTime' =
                   [lastDecryptionRequestTime EXCEPT ![last'.caller] = now]
             /\ UNCHANGED lastSubmissionTime
       /\ ~(/\ last'.op \in {"submitEncryptedData",
                             "requestBatchSummaryDecryption"}
            /\ last'.res = "ok") =>
             UNCHANGED <<lastSubmissionTime, lastDecryptionRequestTime>>]_vars

\* a provider that submitted in an earlier block had a request accepted and
\* its next request rejected by the throttle: the rejected call left the
\* timestamp of the accepted one, and the older submission timestamp
C17_Witness ==
    /\ last.op = "requestBatchSummaryDecryption"
    /\ last.res = "CooldownActive"
    /\ lastDecryptionRequestTime[last.caller] = now
    /\ lastSubmissionTime[last.caller] # 0
    /\ lastSubmissionTime[last.caller] < now

(* C18: there is one owner and only it can change the owner.                 *)
(* transferOwnership(n) by the owner succeeds in every state, n = owner      *)
(* included, and emits OwnershipTransferred(previous owner, n); afterwards n *)
(* is the owner and, when n is another account, every owner-only call by the *)
(* previous owner reverts with NotOwner.  No other call changes the owner.   *)
C18_SingleTransferableOwner ==
    /\ [](/\ owner \in Addr
          /\ transferOwnershipError(owner) = "ok"
          /\ \A c \in Addr \ {owner} :
                /\ transferOwnershipError(c) = "NotOwner"
                /\ addProviderError(c) = "NotOwner"
                /\ removeProviderError(c) = "NotOwner"
                /\ setPausedError(c) = "NotOwner"
                /\ setCooldownError(c) = "NotOwner"
                /\ openBatchError(c) = "NotOwner"
                /\ \A b \in BatchIds : closeBatchError(c, b) = "NotOwner")
    /\ [][/\ owner' # owner =>
                /\ last' = Call("transferOwnership", owner, "ok")
                /\ emitted' = << <<"OwnershipTransferred", owner, owner'>> >>
          /\ (last'.op = "transferOwnership" /\ last'.caller = owner) =>
                \A n \in Addr :
                   transferOwnership(owner, n) =>
                      /\ last'.res = "ok"
                      /\ owner' = n
                      /\ emitted' = << <<"OwnershipTransferred", owner, n>> >>
                      /\ \A o \in Addr \ {n} :
                            o = owner => transferOwnershipError(o)' = "NotOwner"
          /\ (last.op = "transferOwnership" /\ last.res = "ok"
                 /\ last.caller # owner /\ last'.caller = last.caller
                 /\ last'.op \in OwnerOnly) =>
                (last'.res = "NotOwner" /\ CleanRevert)]_vars

\* the owner handed the contract over and its next owner-only call was rejected
C18_Witness ==
    /\ last = Call("setPaused", Deployer, "NotOwner")
    /\ owner # Deployer
    /\ calls = 1

(* C19: with a decryption oracle that never returns a requestId twice, a     *)
(* context once created by requestBatchSummaryDecryption is never deleted    *)
(* or overwritten: its batchId and stateHash never change, and its processed *)
(* flag changes at most once, from false to true, by a successful myCallback *)
(* for that requestId; as long as no callback for it has succeeded it is     *)
(* unprocessed, whatever other calls run.  A context is created only by a    *)
(* successful requestBatchSummaryDecryption.                                 *)
C19_ContextLifecycle ==
    /\ [](\A r \in RequestIds :
             /\ decryptionContexts[r].processed <=> completed[r] >= 1
             /\ ~NeverRequested(r) =>
                   /\ decryptionContexts[r] # EmptyContext
                   /\ decryptionContexts[r].stateHash = CurrentHash)
    /\ [][\A r \in RequestIds :
             /\ ~NeverRequested(r) =>
                   /\ r < nextRequestId'
                   /\ decryptionContexts'[r].batchId =
                         decryptionContexts[r].batchId
                   /\ decryptionContexts'[r].stateHash =
                         decryptionContexts[r].stateHash
                   /\ decryptionContexts[r].processed =>
                         decryptionContexts'[r].processed
                   /\ decryptionContexts'[r].processed
                         # decryptionContexts[r].processed =>
                         /\ last'.op = "myCallback"
                         /\ last'.res = "ok"
                         /\ emitted'[1][2] = r
             /\ (NeverRequested(r)
                    /\ decryptionContexts'[r] # decryptionContexts[r]) =>
                   /\ last'.op = "requestBatchSummaryDecryption"
                   /\ last'.res = "ok"
                   /\ r = nextRequestId
                   /\ ~decryptionContexts'[r].processed]_vars

\* two requests were made; the second was finalized and other calls followed,
\* while the first, never answered, is still stored and unprocessed
C19_Witness ==
    /\ last = Call("openBatch", owner, "ok")
    /\ nextRequestId = 2
    /\ decryptionContexts[0].stateHash = CurrentHash
    /\ ~decryptionContexts[0].processed
    /\ completed[0] = 0
    /\ decryptionContexts[1].processed

(* C20: requests are not deduplicated per batch.  A request for a closed     *)
(* batch by a provider that is neither paused nor throttled succeeds whether *)
(* or not the batch already has a context, and stores its context under a    *)
(* new requestId without touching any other context; every requested,        *)
(* unprocessed context is finalized by a callback carrying the oracle's      *)
(* signature whatever the state of the other contexts, so the callbacks of   *)
(* two requests for one batch may come in either order; each finalizes its   *)
(* own context, once, and leaves every other context and its processed flag  *)
(* as they were.                                                             *)
C20_IndependentRequests ==
    /\ [](/\ \A c \in Addr, b \in BatchIds :
                (isProvider[c] /\ ~paused /\ RequestUnthrottled(c)
                    /\ isBatchClosed[b]
                    /\ \E r \in RequestIds :
                          ~NeverRequested(r) /\ decryptionContexts[r].batchId = b)
                   => requestBatchSummaryDecryptionError(c, b) = "ok"
          /\ \A r \in RequestIds :
                /\ completed[r] <= 1
                /\ (~NeverRequested(r) /\ ~decryptionContexts[r].processed) =>
                      \A t \in Cleartexts :
                         Decodable(t) =>
                            myCallbackError(r, t, Sign(r, t)) = "ok")
    /\ [][/\ (last'.op = "requestBatchSummaryDecryption" /\ last'.res = "ok") =>
                /\ nextRequestId' = nextRequestId + 1
                /\ decryptionContexts'[nextRequestId].batchId = emitted'[1][3]
                /\ ~decryptionContexts'[nextRequestId].processed
                /\ \A r \in RequestIds \ {nextRequestId} :
                      /\ decryptionContexts'[r] = decryptionContexts[r]
                      /\ completed'[r] = completed[r]
          /\ (last'.op = "myCallback" /\ last'.res = "ok") =>
                /\ decryptionContexts'[emitted'[1][2]].processed
                /\ completed[emitted'[1][2]] = 0
                /\ completed'[emitted'[1][2]] = 1
                /\ \A r \in RequestIds \ {emitted'[1][2]} :
                      /\ decryptionContexts'[r] = decryptionContexts[r]
                      /\ completed'[r] = completed[r]]_vars

\* two requests for the same closed batch were made and answered in reverse
\* order: the callback for the first request came last, after the second
\* request was finalized
C20_Witness ==
    /\ last.op = "myCallback"
    /\ last.res = "ok"
    /\ emitted[1][2] = 0
    /\ nextRequestId = 2
    /\ decryptionContexts[0].batchId = decryptionContexts[1].batchId
    /\ \A r \in {0, 1} : decryptionContexts[r].processed /\ completed[r] = 1

(* C21, as claimed: for a provider calling while the contract is not paused, *)
(* the throttle check of submitEncryptedData and of                          *)
(* requestBatchSummaryDecryption rejects with CooldownActive exactly when    *)
(* block.timestamp < lastTime + cooldownSeconds and otherwise lets the call  *)
(* through (to succeed or to fail the batch check), for every cooldown the   *)
(* owner can set: also when lastTime + cooldownSeconds exceeds the integer   *)
(* width, the outcome is CooldownActive or acceptance, no other failure.     *)
C21_ThrottleIsTotal ==
    [][/\ (last'.op = "submitEncryptedData"
              /\ isProvider[last'.caller] /\ ~paused) =>
             /\ last'.res \in {"CooldownActive", "ok", "InvalidBatch"}
             /\ last'.res = "CooldownActive" <=>
                   now < lastSubmissionTime[last'.caller] + cooldownSeconds
       /\ (last'.op = "requestBatchSummaryDecryption"
              /\ isProvider[last'.caller] /\ ~paused) =>
             /\ last'.res \in {"CooldownActive", "ok", "InvalidBatch"}
             /\ last'.res = "CooldownActive" <=>
                   now < lastDecryptionRequestTime[last'.caller]
                            + cooldownSeconds]_vars

(* C22: one cooldown for both channels.  cooldownSeconds is 60 after         *)
(* construction and changes only by a successful setCooldown of the owner,   *)
(* to the value passed.  Both submitEncryptedData and                        *)
(* requestBatchSummaryDecryption are throttled by the value current at the   *)
(* time of the call: a provider calling while not paused gets past the       *)
(* throttle exactly when block.timestamp >= its recorded timestamp of that   *)
(* channel + cooldownSeconds, so a setCooldown at once changes whether a     *)
(* provider with a recorded timestamp is throttled.                          *)
C22_OneCurrentCooldown ==
    /\ cooldownSeconds = DefaultCooldown
    /\ [](\A c \in Addr, b \in BatchIds :
             (isProvider[c] /\ ~paused) =>
                /\ submitEncryptedDataError(c, b) \in {"ok", "InvalidBatch"}
                      <=> now >= lastSubmissionTime[c] + cooldownSeconds
                /\ requestBatchSummaryDecryptionError(c, b)
                         \in {"ok", "InvalidBatch"}
                      <=> now >= lastDecryptionRequestTime[c] + cooldownSeconds)
    /\ [][/\ cooldownSeconds' # cooldownSeconds =>
                /\ last' = Call("setCooldown", owner, "ok")
                /\ emitted' = << <<"CooldownSet", cooldownSeconds'>> >>
          /\ (last'.op = "setCooldown" /\ last'.res = "ok") =>
                /\ last'.caller = owner
                /\ emitted' = << <<"CooldownSet", cooldownSeconds'>> >>
                /\ \A c \in Addr, b \in BatchIds :
                      (isProvider[c] /\ ~paused) =>
                         /\ submitEncryptedDataError(c, b)' = "ok" <=>
                               /\ now >= lastSubmissionTime[c] + cooldownSeconds'
                               /\ ~isBatchClosed[b]
                         /\ requestBatchSummaryDecryptionError(c, b)' = "ok" <=>
                               /\ now >= lastDecryptionRequestTime[c]
                                            + cooldownSeconds'
                               /\ isBatchClosed[b]]_vars

\* a provider was throttled on both channels in the block of its submission
\* and request; the owner set the cooldown to 0 and the provider is let
\* through on both at once
C22_Witness ==
    /\ last = Call("setCooldown", owner, "ok")
    /\ cooldownSeconds = 0
    /\ ~paused
    /\ \E c \in Addr :
          /\ isProvider[c]
          /\ lastSubmissionTime[c] = now
          /\ lastDecryptionRequestTime[c] = now
          /\ \E b \in BatchIds : submitEncryptedDataError(c, b) = "ok"
          /\ \E b \in BatchIds : requestBatchSummaryDecryptionError(c, b) = "ok"

(* C23: for every context created by a successful                            *)
(* requestBatchSummaryDecryption, in every later state, the hash myCallback  *)
(* recomputes equals the stored stateHash; so a myCallback call for a        *)
(* requested, unprocessed context never reverts with StateMismatch (nor with *)
(* ReplayAttempt): it reverts with DecryptionFailed when the proof is not    *)
(* the oracle's signature, and with the oracle's signature it finalizes the  *)
(* request (cleartexts too short to decode as a uint256 make abi.decode      *)
(* revert).                                                                  *)
C23_StoredHashAlwaysMatches ==
    /\ [](\A r \in RequestIds :
             ~NeverRequested(r) =>
                /\ decryptionContexts[r].stateHash = CurrentHash
                /\ StateHashMatches(r)
                /\ ~decryptionContexts[r].processed =>
                      \A t \in Cleartexts : \A p \in Proofs(r, t) :
                         myCallbackError(r, t, p) =
                            IF p # Sign(r, t) THEN "DecryptionFailed"
                            ELSE IF Decodable(t) THEN "ok"
                            ELSE "DecodeError")
    /\ [][/\ (last'.op = "requestBatchSummaryDecryption" /\ last'.res = "ok") =>
                decryptionContexts'[nextRequestId].stateHash = CurrentHash'
          /\ (last'.op = "myCallback" /\ last'.res = "StateMismatch") =>
                \A r \in RequestIds :
                   ~NeverRequested(r) =>
                      \A c \in Addr, t \in Cleartexts : \A p \in Proofs(r, t) :
                         ~myCallback(c, r, t, p)]_vars

\* the deployer's request, made in an earlier block for a batch that
\* openBatch created, was finalized: its stored hash still matched
C23_Witness ==
    /\ last.op = "myCallback"
    /\ last.res = "ok"
    /\ ticks >= 1
    /\ currentBatchId >= 1
    /\ \E r \in RequestIds :
          /\ emitted[1][2] = r
          /\ decryptionContexts[r].stateHash = CurrentHash
          /\ lastDecryptionRequestTime[Deployer] < now

(* C24, as claimed: a batch is closed only after openBatch created it.  In   *)
(* every reachable state every batch id whose closed flag is set lies in     *)
(* 1..currentBatchId; closeBatch never closes, and                           *)
(* requestBatchSummaryDecryption is never accepted for, an id no openBatch   *)
(* created, such as id 0 before the first openBatch.                         *)
C24_ClosedOnlyAfterOpened ==
    /\ [](\A b \in BatchIds :
             isBatchClosed[b] => (1 <= b /\ b <= currentBatchId))
    /\ [][/\ (last'.op = "closeBatch" /\ last'.res = "ok") =>
                (1 <= emitted'[1][2] /\ emitted'[1][2] <= currentBatchId)
          /\ (last'.op = "requestBatchSummaryDecryption" /\ last'.res = "ok") =>
                (1 <= emitted'[1][3] /\ emitted'[1][3] <= currentBatchId)]_vars

(* C25: throttling is per caller and per channel.  A successful              *)
(* submitEncryptedData changes only the caller's lastSubmissionTime and a    *)
(* successful requestBatchSummaryDecryption only the caller's                *)
(* lastDecryptionRequestTime.  A submission or request by p leaves the       *)
(* outcome of the throttle check of every other account q, on both channels, *)
(* as it was, so it never makes q fail with CooldownActive; and p's          *)
(* submission leaves p's own request throttle as it was, and the reverse.    *)
C25_ThrottlePerCallerAndChannel ==
    [][\A p \in Addr :
          (last'.caller = p
              /\ last'.op \in {"submitEncryptedData",
                                "requestBatchSummaryDecryption"}) =>
             /\ \A q \in Addr \ {p} :
                   /\ lastSubmissionTime'[q] = lastSubmissionTime[q]
                   /\ lastDecryptionRequestTime'[q] = lastDecryptionRequestTime[q]
                   /\ CooldownCheck(lastSubmissionTime[q])'
                         = CooldownCheck(lastSubmissionTime[q])
                   /\ CooldownCheck(lastDecryptionRequestTime[q])'
                         = CooldownCheck(lastDecryptionRequestTime[q])
                   /\ \A b \in BatchIds :
                         /\ submitEncryptedDataError(q, b)' = "CooldownActive"
                               => submitEncryptedDataError(q, b) = "CooldownActive"
                         /\ requestBatchSummaryDecryptionError(q, b)'
                                  = "CooldownActive"
                               => requestBatchSummaryDecryptionError(q, b)
                                     = "CooldownActive"
             /\ last'.op = "submitEncryptedData" =>
                   /\ lastDecryptionRequestTime'[p] = lastDecryptionRequestTime[p]
                   /\ CooldownCheck(lastDecryptionRequestTime[p])'
                         = CooldownCheck(lastDecryptionRequestTime[p])
                   /\ last'.res = "ok" => lastSubmissionTime'[p] = now
             /\ last'.op = "requestBatchSummaryDecryption" =>
                   /\ lastSubmissionTime'[p] = lastSubmissionTime[p]
                   /\ CooldownCheck(lastSubmissionTime[p])'
                         = CooldownCheck(lastSubmissionTime[p])
                   /\ last'.res = "ok" =>
                         lastDecryptionRequestTime'[p] = now]_vars

\* two providers submitted in the same block, and one of them then had a
\* request accepted in that block too
C25_Witness ==
    /\ last.op = "requestBatchSummaryDecryption"
    /\ last.res = "ok"
    /\ \A a \in Addr : isProvider[a] /\ lastSubmissionTime[a] = now
    /\ lastDecryptionRequestTime[last.caller] = now
    /\ cooldownSeconds = DefaultCooldown

(* C26: provider flags change only through addProvider and removeProvider   *)
(* called by the current owner; the constructor makes the deployer, and      *)
(* nobody else, a provider.  Every other function leaves every flag          *)
(* unchanged: after transferOwnership the previous owner keeps its flag and  *)
(* the new owner is a provider only if it was one before.  An account whose  *)
(* flag is false has every submitEncryptedData and                           *)
(* requestBatchSummaryDecryption rejected with NotProvider.                  *)
C26_ProviderFlags ==
    /\ \A a \in Addr : isProvider[a] <=> a = Deployer
    /\ [](\A a \in Addr, b \in BatchIds :
             ~isProvider[a] =>
                /\ submitEncryptedDataError(a, b) = "NotProvider"
                /\ requestBatchSummaryDecryptionError(a, b) = "NotProvider")
    /\ [][/\ \A a \in Addr :
                isProvider'[a] # isProvider[a] =>
                   /\ last'.caller = owner
                   /\ last'.res = "ok"
                   /\ \/ /\ last'.op = "addProvider"
                         /\ isProvider'[a]
                         /\ emitted' = << <<"ProviderAdded", a>> >>
                      \/ /\ last'.op = "removeProvider"
                         /\ ~isProvider'[a]
                         /\ emitted' = << <<"ProviderRemoved", a>> >>
                   /\ \A c \in Addr \ {a} : isProvider'[c] = isProvider[c]
          /\ last'.op \notin {"addProvider", "removeProvider"} =>
                isProvider' = isProvider
          /\ (last'.op = "transferOwnership" /\ last'.res = "ok") =>
                /\ isProvider'[owner] = isProvider[owner]
                /\ isProvider'[owner'] = isProvider[owner']]_vars

\* the deployer handed ownership to an account that was never added: the
\* new owner's submission was rejected, the deployer is still a provider
C26_Witness ==
    /\ last = Call("submitEncryptedData", owner, "NotProvider")
    /\ owner # Deployer
    /\ ~isProvider[owner]
    /\ isProvider[Deployer]

(* C27: a batch left open when openBatch moved on can never be closed.  For  *)
(* every batch id b below currentBatchId, closeBatch(b) never succeeds (a    *)
(* call that passes the owner and pause checks fails with InvalidBatch), no  *)
(* operation changes the closed flag of b, b stays below currentBatchId,     *)
(* and while its flag is false no requestBatchSummaryDecryption(b) is        *)
(* accepted.                                                                 *)
C27_SupersededBatchStaysOpen ==
    /\ [](\A b \in BatchIds :
             b < currentBatchId =>
                /\ \A a \in Addr :
                      /\ closeBatchError(a, b) # "ok"
                      /\ (OnlyOwner(a) /\ WhenNotPaused) =>
                            closeBatchError(a, b) = "InvalidBatch"
                /\ ~isBatchClosed[b] =>
                      \A a \in Addr :
                         requestBatchSummaryDecryptionError(a, b) # "ok")
    /\ [][/\ currentBatchId' >= currentBatchId
          /\ \A b \in BatchIds :
                b < currentBatchId' => isBatchClosed'[b] = isBatchClosed[b]
          /\ (last'.op = "openBatch" /\ last'.res = "ok") =>
                /\ currentBatchId < currentBatchId'
                /\ isBatchClosed'[currentBatchId] = isBatchClosed[currentBatchId]]_vars

\* batch 1 was left open when batch 2 was opened; batch 2 is closed, and the
\* owner's closeBatch of a superseded batch has just failed with InvalidBatch
C27_Witness ==
    /\ currentBatchId = 2
    /\ ~isBatchClosed[1]
    /\ isBatchClosed[2]
    /\ ~paused
    /\ last = Call("closeBatch", owner, "InvalidBatch")

(* C28: in every reachable state the context stored for every request id     *)
(* handed out so far names a batch whose closed flag is true, and the batch  *)
(* id of every DecryptionRequested and DecryptionCompleted event is that of  *)
(* a closed batch.                                                           *)
C28_ContextsReferToClosedBatches ==
    /\ [](\A r \in RequestIds :
             ~NeverRequested(r) => isBatchClosed[decryptionContexts[r].batchId])
    /\ [][(/\ last'.op \in {"requestBatchSummaryDecryption", "myCallback"}
           /\ last'.res = "ok") =>
             /\ Len(emitted') = 1
             /\ emitted'[1][1] \in {"DecryptionRequested", "DecryptionCompleted"}
             /\ emitted'[1][3] = decryptionContexts'[emitted'[1][2]].batchId
             /\ isBatchClosed'[emitted'[1][3]]]_vars

\* the summary of batch 1 was requested and finalized, and batch 2 has been
\* opened since: batch 1, which the context names, is still closed
C28_Witness ==
    /\ last = Call("openBatch", owner, "ok")
    /\ currentBatchId = 2
    /\ ~NeverRequested(0)
    /\ decryptionContexts[0].batchId = 1
    /\ decryptionContexts[0].processed
    /\ isBatchClosed[1]

(* C29: myCallback is gated neither by the pause flag nor by any role.  In   *)
(* every reachable state, whatever paused, owner and the provider flags are, *)
(* a callback for a requested and unprocessed id with decodable cleartexts   *)
(* and their valid proof is accepted; no callback is ever rejected with      *)
(* Paused, NotOwner or NotProvider; and an accepted one, from whichever      *)
(* caller, marks the context processed and leaves paused, owner and the      *)
(* provider flags as they were.                                              *)
C29_CallbackIsUngated ==
    /\ [](\A r \in RequestIds, t \in Cleartexts :
             (~NeverRequested(r) /\ ~decryptionContexts[r].processed /\ Decodable(t)) =>
                myCallbackError(r, t, Sign(r, t)) = "ok")
    /\ [][last'.op = "myCallback" =>
             /\ last'.res \notin {"Paused", "NotOwner", "NotProvider"}
             /\ last'.res = "ok" =>
                   /\ Len(emitted') = 1
                   /\ ~decryptionContexts[emitted'[1][2]].processed
                   /\ decryptionContexts'[emitted'[1][2]].processed
                   /\ UNCHANGED <<paused, owner, isProvider>>]_vars

\* a request was made, then the only provider was removed and the contract
\* paused; the callback, sent by an account that is not the owner, has
\* just finalized the request
C29_Witness ==
    /\ last.op = "myCallback"
    /\ last.res = "ok"
    /\ last.caller # owner
    /\ paused
    /\ \A a \in Addr : ~isProvider[a]
    /\ \E r \in RequestIds : ~NeverRequested(r) /\ decryptionContexts[r].processed

(* C30: the error of a call is that of the first failing precondition in a   *)
(* fixed order.  For submitEncryptedData and requestBatchSummaryDecryption:  *)
(* NotProvider if the caller's flag is false, else Paused if the contract is *)
(* paused, else CooldownActive if now < lastTime + cooldownSeconds for the   *)
(* caller's timestamp of that function, else InvalidBatch if the batch is    *)
(* closed (submission) or not closed (request), else accepted.  For          *)
(* openBatch and closeBatch: NotOwner, else Paused, else InvalidBatch        *)
(* (closeBatch of an id other than currentBatchId), else accepted.           *)
C30_ErrorOrder ==
    /\ [](\A a \in Addr, b \in BatchIds :
             /\ submitEncryptedDataError(a, b) =
                   IF ~isProvider[a] THEN "NotProvider"
                   ELSE IF paused THEN "Paused"
                   ELSE IF now < lastSubmissionTime[a] + cooldownSeconds
                       THEN "CooldownActive"
                   ELSE IF isBatchClosed[b] THEN "InvalidBatch"
                   ELSE "ok"
             /\ requestBatchSummaryDecryptionError(a, b) =
                   IF ~isProvider[a] THEN "NotProvider"
                   ELSE IF paused THEN "Paused"
                   ELSE IF now < lastDecryptionRequestTime[a] + cooldownSeconds
                       THEN "CooldownActive"
                   ELSE IF ~isBatchClosed[b] THEN "InvalidBatch"
                   ELSE "ok"
             /\ openBatchError(a) =
                   IF a # owner THEN "NotOwner"
                   ELSE IF paused THEN "Paused"
                   ELSE "ok"
             /\ closeBatchError(a, b) =
                   IF a # owner THEN "NotOwner"
                   ELSE IF paused THEN "Paused"
                   ELSE IF b # currentBatchId THEN "InvalidBatch"
                   ELSE "ok")
    /\ [][/\ last'.op \in {"submitEncryptedData", "requestBatchSummaryDecryption"} =>
                LET lastTime == IF last'.op = "submitEncryptedData"
                                THEN lastSubmissionTime[last'.caller]
                                ELSE lastDecryptionRequestTime[last'.caller]
                IN  IF ~isProvider[last'.caller] THEN last'.res = "NotProvider"
                    ELSE IF paused THEN last'.res = "Paused"
                    ELSE IF now < lastTime + cooldownSeconds
                        THEN last'.res = "CooldownActive"
                    ELSE last'.res \in {"InvalidBatch", "ok"}
          /\ last'.op \in {"openBatch", "closeBatch"} =>
                IF last'.caller # owner THEN last'.res = "NotOwner"
                ELSE IF paused THEN last'.res = "Paused"
                ELSE last'.res \in {"InvalidBatch", "ok"}]_vars

====
